---- MODULE Spec2Model ----
(***************************************************************************)
(* Presence subsystem of the agora API gateway:                            *)
(*   routes/users.rs       set_presence, get_presence                      *)
(*   routes/presence_ws.rs ws_handler, handle_socket                       *)
(*   app_state.rs          AppState, PresenceEvent, presence_tx            *)
(* The store is the redis server the handlers talk to; the bus is the      *)
(* tokio broadcast channel created in AppState::new.                       *)
(***************************************************************************)
EXTENDS Integers, Sequences, FiniteSets, TLC

VARIABLES
    redis,      \* AppState.redis is Some(connection) (TRUE) or None (FALSE)
    store,      \* redis keyspace: key -> NoKey or [value, expiry]
    now,        \* wall clock of the redis server, in seconds
    busLog,     \* events accepted by presence_tx, oldest first
    reqs,       \* set_presence calls made so far, in arrival order
    getResp,    \* the response of the latest get_presence call
    lastSet,    \* per user: the latest store mutation applied by set_presence
    sess,       \* per websocket session: the state of its handle_socket task
    db_pool,    \* AppState.db_pool is Some(pool) (TRUE) or None (FALSE)
    serving,    \* main has finished its start-up and serves requests
    friends,    \* the friends table: (requester_id, addressee_id) -> row
    calls,      \* the calls of the friends handlers, in arrival order
    rooms       \* number of rooms the homeserver has created for DMs

presenceVars == <<redis, store, now, busLog, reqs, getResp, lastSet, sess>>

friendVars == <<db_pool, serving, friends, calls, rooms>>

vars == <<redis, store, now, busLog, reqs, getResp, lastSet, sess,
          db_pool, serving, friends, calls, rooms>>

-----------------------------------------------------------------------------
(* Bounds of the model *)

MaxRequests == 2    \* set_presence calls per run
MaxFairRequests == 3 \* set_presence calls per run of the fair specification
MaxSessions == 1    \* websocket sessions per run
MaxBusSessions == 2 \* websocket sessions per run of the bus specification
MaxInbound  == 1    \* inbound ping / other frames per session
MaxBuffered == 1    \* cap on the modelled channel capacity
TickSecs    == 150  \* seconds per clock step
MaxTime     == 300  \* the clock stops here
MaxFriendCalls == 4 \* calls of the friends handlers per run

(* Program constants *)

PRESENCE_TTL_SECS         == 300
PRESENCE_CHANNEL_CAPACITY == 64

\* the capacity the model runs with: the program's, cut to the bound
ChannelCapacity ==
    IF PRESENCE_CHANNEL_CAPACITY < MaxBuffered
    THEN PRESENCE_CHANNEL_CAPACITY ELSE MaxBuffered

-----------------------------------------------------------------------------
(* Values *)

\* user ids are strings; a string is modelled as a sequence of tokens so that
\* key formatting and prefix trimming are computed, not assumed
Users == { <<"A">>, <<"B">>, <<"C">> }

ValidPresence == { "online", "offline", "unavailable" }
Presences     == ValidPresence \cup { "away" }

NoKey  == [absent |-> TRUE]
NoResp == [none |-> TRUE]
NoRx   == -1

OK                    == 200
INTERNAL_SERVER_ERROR == 500
SERVICE_UNAVAILABLE   == 503

Sessions == 1 .. MaxSessions

BusSessions == 1 .. MaxBusSessions

AllSessions == Sessions \cup BusSessions

\* the token of the query string / request body
Tokens == { "valid", "invalid" }

PresenceEvent(u, p) == [user_id |-> u, presence |-> p]

\* format!("presence:{}", user_id)
PresenceKey(u) == <<"presence:">> \o u

Keys == { PresenceKey(u) : u \in Users }

\* (variant: the key is used as the user id, prefix and all)
KeepPrefix(k) == k

\* key.trim_start_matches("presence:"): strips every leading occurrence
RECURSIVE TrimStartMatches(_)
TrimStartMatches(k) ==
    IF k /= << >> /\ Head(k) = "presence:"
    THEN TrimStartMatches(Tail(k))
    ELSE k

-----------------------------------------------------------------------------
(* The redis store *)

Present(st, k) == st[k] /= NoKey

\* DEL key: removes the key; deleting a missing key is not an error
StoreDel(st, k) == [st EXCEPT ![k] = NoKey]

\* SETEX key ttl value: upsert, expiry counted from the time of the call
StoreSetEx(st, k, v, ttl, t) ==
    [st EXCEPT ![k] = [value |-> v, expiry |-> t + ttl]]

\* GET key: Some(value) or None
StoreGet(st, k) ==
    IF Present(st, k) THEN [some |-> TRUE, value |-> st[k].value]
    ELSE [some |-> FALSE]

\* KEYS presence:*
StoreKeys(st) == { k \in DOMAIN st : Present(st, k) }

\* redis drops every key whose expiry has been reached
Expire(st, t) ==
    [k \in DOMAIN st |->
        IF Present(st, k) /\ st[k].expiry <= t THEN NoKey ELSE st[k]]

-----------------------------------------------------------------------------
(* The broadcast channel *)

\* number of live receivers (tail.rx_cnt)
RxCount == Cardinality({ s \in AllSessions : sess[s].rx /= NoRx })

\* (variant: the channel hands out the newest value first)
BusSendFront(log, ev) == IF RxCount = 0 THEN log ELSE <<ev>> \o log

\* Sender::send: with no receiver the value is handed back as an error and
\* nothing is stored; otherwise it is appended.  It never waits.
BusSend(log, ev) == IF RxCount = 0 THEN log ELSE Append(log, ev)

\* (variant: the new receiver starts at the oldest value the channel holds)
SubscribePosReplay(log) == 0

\* Sender::subscribe: the new receiver starts at the current tail
SubscribePos(log) == Len(log)

\* oldest position still held by the channel's ring buffer
OldestHeld(log) ==
    IF Len(log) > ChannelCapacity THEN Len(log) - ChannelCapacity ELSE 0

-----------------------------------------------------------------------------
(* set_presence *)

\* the reply redis gives to the command the handler issues
StoreReply(st, u, p) ==
    IF p = "offline"
    THEN [int |-> IF Present(st, PresenceKey(u)) THEN 1 ELSE 0]   \* DEL
    ELSE [status |-> "OK"]                                        \* SETEX

\* (variant: a DEL that removed nothing is taken for a failure)
UnitFromReplyRemoved(reply) == reply /= [int |-> 0]

\* the reply is converted to RedisResult<()>: the unit type takes any reply
UnitFromReply(reply) == TRUE

\* (variant: a key that exists keeps the expiry it has, SET .. KEEPTTL)
ApplyPresenceKeepTtl(st, u, p, t) ==
    IF p = "offline"
    THEN StoreDel(st, PresenceKey(u))
    ELSE IF Present(st, PresenceKey(u))
    THEN [st EXCEPT ![PresenceKey(u)].value = p]
    ELSE StoreSetEx(st, PresenceKey(u), p, PRESENCE_TTL_SECS, t)

\* (variant: every value, "offline" too, is written with SETEX)
ApplyPresenceStoreAll(st, u, p, t) ==
    StoreSetEx(st, PresenceKey(u), p, PRESENCE_TTL_SECS, t)

\* (variant: the TTL is passed in the wrong unit and the key outlives it)
ApplyPresenceLongTtl(st, u, p, t) ==
    IF p = "offline"
    THEN StoreDel(st, PresenceKey(u))
    ELSE StoreSetEx(st, PresenceKey(u), p, PRESENCE_TTL_SECS * 60, t)

\* the store command the handler issues for a presence value
ApplyPresence(st, u, p, t) ==
    IF p = "offline"
    THEN StoreDel(st, PresenceKey(u))
    ELSE StoreSetEx(st, PresenceKey(u), p, PRESENCE_TTL_SECS, t)

\* (variant: the error of the store command is logged but not returned)
SetPresenceOutcomePublishAnyway(conn, ok) ==
    IF ~conn THEN [pc |-> "done", status |-> SERVICE_UNAVAILABLE, storeOps |-> 0]
    ELSE [pc |-> "publish", status |-> 0, storeOps |-> 1]

\* (variant: a failed store command is reported as success)
SetPresenceOutcomeSwallow(conn, ok) ==
    IF ~conn THEN [pc |-> "done", status |-> SERVICE_UNAVAILABLE, storeOps |-> 0]
    ELSE IF ~ok THEN [pc |-> "done", status |-> OK, storeOps |-> 1]
    ELSE [pc |-> "publish", status |-> 0, storeOps |-> 1]

\* how the handler goes on after `let Some(redis) = .. else` and after
\* `if let Err(e) = result`: conn is whether redis is Some, ok whether the
\* store command returned Ok
SetPresenceOutcome(conn, ok) ==
    IF ~conn THEN [pc |-> "done", status |-> SERVICE_UNAVAILABLE, storeOps |-> 0]
    ELSE IF ~ok THEN [pc |-> "done", status |-> INTERNAL_SERVER_ERROR, storeOps |-> 1]
    ELSE [pc |-> "publish", status |-> 0, storeOps |-> 1]

\* (variant: the event carries the store key instead of the user id)
EventForKey(req) == PresenceEvent(PresenceKey(req.user_id), req.presence)

\* the event the handler builds from the request
EventFor(req) == PresenceEvent(req.user_id, req.presence)

\* (variant: the SendError of a send without receivers fails the request)
StatusAfterSendChecked(n) == IF n = 0 THEN INTERNAL_SERVER_ERROR ELSE OK

\* `let _ = state.presence_tx.send(event)`: the result is discarded, n is the
\* number of receivers at the time
StatusAfterSend(n) == OK

\* a session still connecting has seen the store change under it
Disturb(ss) ==
    [s \in DOMAIN ss |->
        IF ss[s].pc \in {"scan", "snapshot"}
        THEN [ss[s] EXCEPT !.clean = FALSE] ELSE ss[s]]

\* the handler up to and including its store command.  done is whether the
\* command reached redis and was executed there; a command that was not
\* executed leaves the store as it was.
SetPresenceCallUpTo(u, p, done, max) ==
    /\ Len(reqs) < max
    /\ LET ok  == done /\ UnitFromReply(StoreReply(store, u, p))
           out == SetPresenceOutcome(redis, ok)
           applied == redis /\ done
       IN /\ reqs' = Append(reqs,
                 [user_id |-> u, presence |-> p, applied |-> applied,
                  storeOps |-> out.storeOps, sends |-> 0, sendNo |-> 0,
                  event |-> NoResp, busAtSend |-> "-", busPos |-> 0,
                  pc |-> out.pc, status |-> out.status])
          /\ IF applied
             THEN /\ store' = ApplyPresence(store, u, p, now)
                  /\ lastSet' = [lastSet EXCEPT ![u] = [presence |-> p, at |-> now]]
                  /\ sess' = Disturb(sess)
             ELSE UNCHANGED <<store, lastSet, sess>>
    /\ UNCHANGED friendVars
    /\ UNCHANGED <<redis, now, busLog, getResp>>

SetPresenceCall(u, p, done) == SetPresenceCallUpTo(u, p, done, MaxRequests)

\* number of presence_tx.send calls made so far
SendCalls == Cardinality({ r \in DOMAIN reqs : reqs[r].sends > 0 })

\* how full the slowest live receiver's backlog is when send is called
BusState ==
    IF RxCount = 0 THEN "no receiver"
    ELSE IF \E s \in AllSessions : /\ sess[s].rx /= NoRx
                                /\ Len(busLog) - sess[s].rx >= ChannelCapacity
    THEN "full" ELSE "room"

\* the rest of the handler: build the event, send it, return
SetPresencePublish(r) ==
    /\ r \in DOMAIN reqs
    /\ reqs[r].pc = "publish"
    /\ busLog' = BusSend(busLog, EventFor(reqs[r]))
    /\ reqs' = [reqs EXCEPT ![r].sends = @ + 1, ![r].sendNo = SendCalls + 1,
                            ![r].event = EventFor(reqs[r]),
                            ![r].busAtSend = BusState,
                            ![r].busPos =
                                IF Len(BusSend(busLog, EventFor(reqs[r]))) > Len(busLog)
                                THEN Len(busLog) + 1 ELSE 0,
                            ![r].pc = "done",
                            ![r].status = StatusAfterSend(RxCount)]
    /\ UNCHANGED friendVars
    /\ UNCHANGED <<redis, store, now, getResp, lastSet, sess>>

-----------------------------------------------------------------------------
(* get_presence *)

\* (variant: a failed lookup is passed on instead of masked)
PresenceAnswerPropagating(conn, lookup) ==
    IF ~conn THEN "offline"
    ELSE IF "err" \in DOMAIN lookup THEN "error"
    ELSE IF lookup.some THEN lookup.value
    ELSE "offline"

\* the presence the handler answers with.  lookup is the result of
\* redis.get: [err |-> TRUE], or StoreGet's Some(value) / None.
\*   redis None             -> "offline"
\*   .unwrap_or(None)       -> a failed lookup counts as None
\*   .unwrap_or_else(..)    -> None counts as "offline"
PresenceAnswer(conn, lookup) ==
    IF ~conn THEN "offline"
    ELSE IF "err" \in DOMAIN lookup THEN "offline"
    ELSE IF lookup.some THEN lookup.value
    ELSE "offline"

\* the whole handler; it has no error return (Json<PresenceResponse>)
GetPresence(u, ok) ==
    /\ LET lookup == IF ok THEN StoreGet(store, PresenceKey(u))
                     ELSE [err |-> TRUE]
           p == PresenceAnswer(redis, lookup)
       IN getResp' = [user_id |-> u, at |-> now,
                      failed |-> redis /\ ~ok,
                      stored |-> StoreGet(store, PresenceKey(u)),
                      presence |-> p]
    /\ UNCHANGED friendVars
    /\ UNCHANGED <<redis, store, now, busLog, reqs, lastSet, sess>>

-----------------------------------------------------------------------------
(* handle_socket *)

Frame(ev, kind, pos) ==
    [user_id |-> ev.user_id, presence |-> ev.presence, kind |-> kind, pos |-> pos]

\* (variant: the snapshot is taken first and the subscription made after it)
SubscribeAfterSnapshot(s) ==
    /\ \/ /\ sess[s].pc = "idle"
          /\ sess' = [sess EXCEPT ![s].sub = SendCalls,
                                  ![s].clean = redis,
                                  ![s].pc = IF redis THEN "scan" ELSE "loop"]
       \/ /\ sess[s].pc = "loop"
          /\ sess[s].rx = NoRx
          /\ sess' = [sess EXCEPT ![s].rx = SubscribePos(busLog)]
    /\ UNCHANGED friendVars
    /\ UNCHANGED <<redis, store, now, busLog, reqs, getResp, lastSet>>

\* socket.split(); presence_tx.subscribe(); then the snapshot is taken only
\* when redis is Some
Subscribe(s) ==
    /\ sess[s].pc = "idle"
    /\ sess' = [sess EXCEPT ![s].rx = SubscribePos(busLog),
                            ![s].subPos = SubscribePos(busLog),
                            ![s].sub = SendCalls,
                            ![s].clean = redis,
                            ![s].pc = IF redis THEN "scan" ELSE "loop"]
    /\ UNCHANGED friendVars
    /\ UNCHANGED <<redis, store, now, busLog, reqs, getResp, lastSet>>

\* (variant: a failed scan is passed on with `?` and ends the task)
ScanOrClose(s, ok) ==
    /\ sess[s].pc = "scan"
    /\ LET keys == IF ok THEN StoreKeys(store) ELSE {}
       IN IF ok
          THEN sess' = [sess EXCEPT ![s].keys = keys,
                           ![s].pc = IF keys = {} THEN "loop" ELSE "snapshot"]
          ELSE sess' = [sess EXCEPT ![s].pc = "closed", ![s].rx = NoRx,
                                    ![s].clean = FALSE,
                                    ![s].why = "scan failed"]
    /\ UNCHANGED friendVars
    /\ UNCHANGED <<redis, store, now, busLog, reqs, getResp, lastSet>>

\* redis.keys("presence:*").await.unwrap_or_default(): a failed scan is an
\* empty list
Scan(s, ok) ==
    /\ sess[s].pc = "scan"
    /\ LET keys == IF ok THEN StoreKeys(store) ELSE {}
       IN sess' = [sess EXCEPT ![s].keys = keys,
                               ![s].clean = @ /\ ok,
                               ![s].omitted = IF ok THEN @ ELSE StoreKeys(store),
                               ![s].pc = IF keys = {} THEN "loop" ELSE "snapshot"]
    /\ UNCHANGED friendVars
    /\ UNCHANGED <<redis, store, now, busLog, reqs, getResp, lastSet>>

\* one turn of `for key in keys`: redis.get(&key), and when it yields a value
\* the frame is sent.  ok is the outcome of the lookup, sent that of the send.
\* The send touches only this session's socket, so it is taken in the same
\* step as the lookup.
SnapshotKey(s, k, ok, sent) ==
    /\ sess[s].pc = "snapshot"
    /\ k \in sess[s].keys
    /\ LET lookup == IF ok THEN StoreGet(store, k) ELSE [some |-> FALSE]
           rest == sess[s].keys \ {k}
           after == IF rest = {} THEN "loop" ELSE "snapshot"
       IN IF ~lookup.some
          THEN sess' = [sess EXCEPT ![s].keys = rest, ![s].pc = after,
                                    ![s].clean = @ /\ ok,
                                    ![s].omitted =
                                        IF ~ok /\ Present(store, k)
                                        THEN @ \cup {k} ELSE @]
          ELSE IF sent
          THEN sess' = [sess EXCEPT
                   ![s].keys = rest, ![s].pc = after,
                   ![s].frames = Append(@,
                       Frame(PresenceEvent(TrimStartMatches(k), lookup.value),
                             "snapshot", 0))]
          ELSE \* client disconnected during snapshot: return, rx is dropped
               sess' = [sess EXCEPT ![s].keys = {}, ![s].pc = "closed",
                                    ![s].rx = NoRx,
                                    ![s].why = "snapshot send failed"]
    /\ UNCHANGED friendVars
    /\ UNCHANGED <<redis, store, now, busLog, reqs, getResp, lastSet>>

\* (variant: a failed send is logged and the loop goes on with the next event)
RecvEventSkipOnFailure(s, sent) ==
    /\ sess[s].pc = "loop"
    /\ sess[s].rx /= NoRx
    /\ sess[s].rx >= OldestHeld(busLog)
    /\ sess[s].rx < Len(busLog)
    /\ LET pos == sess[s].rx + 1
       IN IF sent
          THEN sess' = [sess EXCEPT ![s].rx = pos,
                           ![s].frames = Append(@, Frame(busLog[pos], "live", pos))]
          ELSE sess' = [sess EXCEPT ![s].rx = pos]
    /\ UNCHANGED friendVars
    /\ UNCHANGED <<redis, store, now, busLog, reqs, getResp, lastSet>>

\* (variant: the event is taken from the channel and not forwarded)
RecvEventDrop(s, sent) ==
    /\ sess[s].pc = "loop"
    /\ sess[s].rx /= NoRx
    /\ sess[s].rx >= OldestHeld(busLog)
    /\ sess[s].rx < Len(busLog)
    /\ sess' = [sess EXCEPT ![s].rx = @ + 1]
    /\ UNCHANGED friendVars
    /\ UNCHANGED <<redis, store, now, busLog, reqs, getResp, lastSet>>

\* rx.recv() yields Ok(event): the event is forwarded as a text frame; a
\* failed send breaks the loop
RecvEvent(s, sent) ==
    /\ sess[s].pc = "loop"
    /\ sess[s].rx /= NoRx
    /\ sess[s].rx >= OldestHeld(busLog)
    /\ sess[s].rx < Len(busLog)
    /\ LET pos == sess[s].rx + 1
       IN IF sent
          THEN sess' = [sess EXCEPT ![s].rx = pos,
                           ![s].frames = Append(@, Frame(busLog[pos], "live", pos))]
          ELSE sess' = [sess EXCEPT ![s].pc = "closed", ![s].rx = NoRx,
                                    ![s].why = "send failed"]
    /\ UNCHANGED friendVars
    /\ UNCHANGED <<redis, store, now, busLog, reqs, getResp, lastSet>>

\* (variant: a lagged receiver is moved to the tail, past the events the
\* channel still holds, and reports only those that were overwritten)
RecvLaggedToTail(s) ==
    /\ sess[s].pc = "loop"
    /\ sess[s].rx /= NoRx
    /\ sess[s].rx < OldestHeld(busLog)
    /\ sess' = [sess EXCEPT ![s].rx = Len(busLog),
                            ![s].dropped = @ + (OldestHeld(busLog) - sess[s].rx),
                            ![s].skipped =
                                @ \cup (sess[s].rx + 1 .. OldestHeld(busLog))]
    /\ UNCHANGED friendVars
    /\ UNCHANGED <<redis, store, now, busLog, reqs, getResp, lastSet>>

\* (variant: the channel has one read position for all receivers, so a lag
\* moves every receiver that is behind)
RecvLaggedShared(s) ==
    /\ sess[s].pc = "loop"
    /\ sess[s].rx /= NoRx
    /\ sess[s].rx < OldestHeld(busLog)
    /\ sess' = [t \in DOMAIN sess |->
                  IF t = s
                  THEN [sess[t] EXCEPT
                           !.rx = OldestHeld(busLog),
                           !.dropped = @ + (OldestHeld(busLog) - sess[s].rx),
                           !.skipped = @ \cup (sess[s].rx + 1 .. OldestHeld(busLog))]
                  ELSE IF sess[t].rx /= NoRx /\ sess[t].rx < Len(busLog)
                  THEN [sess[t] EXCEPT !.rx = Len(busLog)]
                  ELSE sess[t]]
    /\ UNCHANGED friendVars
    /\ UNCHANGED <<redis, store, now, busLog, reqs, getResp, lastSet>>

\* (variant: a lagged receiver ends the loop)
RecvLaggedBreak(s) ==
    /\ sess[s].pc = "loop"
    /\ sess[s].rx /= NoRx
    /\ sess[s].rx < OldestHeld(busLog)
    /\ sess' = [sess EXCEPT ![s].pc = "closed", ![s].rx = NoRx,
                            ![s].dropped = @ + (OldestHeld(busLog) - sess[s].rx),
                            ![s].why = "lagged"]
    /\ UNCHANGED friendVars
    /\ UNCHANGED <<redis, store, now, busLog, reqs, getResp, lastSet>>

\* rx.recv() yields Err(Lagged(n)): the receiver is moved to the oldest event
\* still held, n is logged, the loop goes on
RecvLagged(s) ==
    /\ sess[s].pc = "loop"
    /\ sess[s].rx /= NoRx
    /\ sess[s].rx < OldestHeld(busLog)
    /\ sess' = [sess EXCEPT ![s].rx = OldestHeld(busLog),
                            ![s].dropped = @ + (OldestHeld(busLog) - sess[s].rx),
                            ![s].skipped =
                                @ \cup (sess[s].rx + 1 .. OldestHeld(busLog))]
    /\ UNCHANGED friendVars
    /\ UNCHANGED <<redis, store, now, busLog, reqs, getResp, lastSet>>

\* (variant: the loop ends but the receiver is kept alive)
ClientCloseLeak(s) ==
    /\ sess[s].pc = "loop"
    /\ sess' = [sess EXCEPT ![s].pc = "closed", ![s].why = "close frame"]
    /\ UNCHANGED friendVars
    /\ UNCHANGED <<redis, store, now, busLog, reqs, getResp, lastSet>>

\* (variant: a close frame is treated like any other inbound frame)
ClientCloseIgnored(s) ==
    /\ sess[s].pc = "loop"
    /\ sess[s].inbound < MaxInbound
    /\ sess' = [sess EXCEPT ![s].inbound = @ + 1]
    /\ UNCHANGED friendVars
    /\ UNCHANGED <<redis, store, now, busLog, reqs, getResp, lastSet>>

\* receiver.next() yields a close frame: break
ClientClose(s) ==
    /\ sess[s].pc = "loop"
    /\ sess' = [sess EXCEPT ![s].pc = "closed", ![s].rx = NoRx,
                            ![s].why = "close frame"]
    /\ UNCHANGED friendVars
    /\ UNCHANGED <<redis, store, now, busLog, reqs, getResp, lastSet>>

\* receiver.next() yields None, the inbound stream has ended: break
InboundEnd(s) ==
    /\ sess[s].pc = "loop"
    /\ sess' = [sess EXCEPT ![s].pc = "closed", ![s].rx = NoRx,
                            ![s].why = "stream end"]
    /\ UNCHANGED friendVars
    /\ UNCHANGED <<redis, store, now, busLog, reqs, getResp, lastSet>>

\* the payloads a client's ping may carry
PingData == { << >>, <<"p">> }

\* (variant: the pong is sent with an empty payload)
PongFrameEmpty(data) ==
    [user_id |-> << >>, presence |-> "", kind |-> "pong", pos |-> 0,
     data |-> << >>]

\* Message::Pong(data)
PongFrame(data) ==
    [user_id |-> << >>, presence |-> "", kind |-> "pong", pos |-> 0,
     data |-> data]

\* receiver.next() yields a ping: a pong is sent, the result of the send is
\* discarded, the loop goes on
ClientPing(s, data, sent) ==
    /\ sess[s].pc = "loop"
    /\ sess[s].inbound < MaxInbound
    /\ sess' = [sess EXCEPT ![s].inbound = @ + 1,
                            ![s].frames = IF sent THEN Append(@, PongFrame(data))
                                          ELSE @]
    /\ UNCHANGED friendVars
    /\ UNCHANGED <<redis, store, now, busLog, reqs, getResp, lastSet>>

\* (variant: an unexpected inbound frame or a read error ends the loop)
ClientOtherBreak(s) ==
    /\ sess[s].pc = "loop"
    /\ sess[s].inbound < MaxInbound
    /\ sess' = [sess EXCEPT ![s].inbound = @ + 1, ![s].pc = "closed",
                            ![s].rx = NoRx, ![s].why = "inbound error"]
    /\ UNCHANGED friendVars
    /\ UNCHANGED <<redis, store, now, busLog, reqs, getResp, lastSet>>

\* receiver.next() yields any other frame, or an error: `_ => {}`
ClientOther(s) ==
    /\ sess[s].pc = "loop"
    /\ sess[s].inbound < MaxInbound
    /\ sess' = [sess EXCEPT ![s].inbound = @ + 1]
    /\ UNCHANGED friendVars
    /\ UNCHANGED <<redis, store, now, busLog, reqs, getResp, lastSet>>

\* the Sender halves of the channel: the one in AppState.presence_tx, which
\* every running task keeps alive through its Arc<AppState>
SenderCount == 1

\* rx.recv() yields Err(Closed), every Sender is gone and nothing is left to
\* read: break
RecvClosed(s) ==
    /\ sess[s].pc = "loop"
    /\ sess[s].rx /= NoRx
    /\ SenderCount = 0
    /\ sess[s].rx = Len(busLog)
    /\ sess' = [sess EXCEPT ![s].pc = "closed", ![s].rx = NoRx,
                            ![s].why = "bus closed"]
    /\ UNCHANGED friendVars
    /\ UNCHANGED <<redis, store, now, busLog, reqs, getResp, lastSet>>

-----------------------------------------------------------------------------
(* the handlers as the router calls them, with the token they are given *)

\* set_presence(Json(req)): req.access_token is never read
set_presence(req, done) == SetPresenceCall(req.user_id, req.presence, done)

\* get_presence(Query(params)): params.access_token is never read
get_presence(params, ok) == GetPresence(params.user_id, ok)

\* (variant: the upgrade is refused unless the token is the valid one)
ws_handlerValidating(s, params) ==
    /\ params.access_token = "valid"
    /\ Subscribe(s)

\* ws_handler: `let _ = params.access_token`, then the upgrade runs
\* handle_socket
ws_handler(s, params) == Subscribe(s)

-----------------------------------------------------------------------------
(* The friends table *)

BAD_REQUEST == 400
NOT_FOUND   == 404

FUsers == { "alice", "bob" }

Pairs == FUsers \X FUsers

NoRow == [absent |-> TRUE]

\* dm_room_id IS NULL
NullRoom == 0

\* the table is keyed by (requester_id, addressee_id), the conflict target of
\* the INSERT: one row at most per ordered pair
EmptyTable == [p \in Pairs |-> NoRow]

\* WHERE (requester_id = u AND addressee_id = f)
\*    OR (requester_id = f AND addressee_id = u)
Matching(t, u, f) == { p \in {<<u, f>>, <<f, u>>} : t[p] /= NoRow }

\* SELECT status .. fetch_optional: the status of one of the matching rows,
\* whichever the database returns first, or none
SelectStatus(t, u, f) ==
    IF Matching(t, u, f) = {} THEN {"none"}
    ELSE { t[p].status : p \in Matching(t, u, f) }

\* SELECT dm_room_id .. fetch_optional
SelectRoom(t, u, f) ==
    IF Matching(t, u, f) = {} THEN {[row |-> FALSE, room |-> NullRoom]}
    ELSE { [row |-> TRUE, room |-> t[p].dm_room_id] : p \in Matching(t, u, f) }

\* (variant: the auto-accept updates the row of either direction)
AutoAcceptEither(t, u, f) ==
    [p \in Pairs |->
        IF p \in Matching(t, u, f) THEN [t[p] EXCEPT !.status = "accepted"]
        ELSE t[p]]

\* UPDATE friends SET status = 'accepted'
\* WHERE requester_id = f AND addressee_id = u        (add_friend)
AutoAccept(t, u, f) ==
    IF t[<<f, u>>] /= NoRow
    THEN [t EXCEPT ![<<f, u>>].status = "accepted"] ELSE t

\* INSERT INTO friends (requester_id, addressee_id, status)
\* VALUES (u, f, 'pending') ON CONFLICT (requester_id, addressee_id) DO NOTHING
InsertPending(t, u, f) ==
    IF t[<<u, f>>] = NoRow
    THEN [t EXCEPT ![<<u, f>>] = [status |-> "pending", dm_room_id |-> NullRoom]]
    ELSE t

\* UPDATE friends SET status = 'accepted'
\* WHERE requester_id = f AND addressee_id = u AND status = 'pending'
AcceptPending(t, u, f) ==
    IF t[<<f, u>>] /= NoRow /\ t[<<f, u>>].status = "pending"
    THEN [t EXCEPT ![<<f, u>>].status = "accepted"] ELSE t

\* result.rows_affected() of a statement that took t to t2
RowsAffected(t, t2) == Cardinality({ p \in Pairs : t[p] /= t2[p] })

\* DELETE FROM friends
\* WHERE requester_id = f AND addressee_id = u AND status = 'pending'
DeletePending(t, u, f) ==
    IF t[<<f, u>>] /= NoRow /\ t[<<f, u>>].status = "pending"
    THEN [t EXCEPT ![<<f, u>>] = NoRow] ELSE t

\* DELETE FROM friends WHERE (either direction)
DeleteBoth(t, u, f) ==
    [p \in Pairs |-> IF p \in {<<u, f>>, <<f, u>>} THEN NoRow ELSE t[p]]

\* UPDATE friends SET dm_room_id = room WHERE (either direction)
CacheRoom(t, u, f, room) ==
    [p \in Pairs |->
        IF p \in Matching(t, u, f) THEN [t[p] EXCEPT !.dm_room_id = room]
        ELSE t[p]]

-----------------------------------------------------------------------------
(* The friends handlers *)

\* a call as the model keeps it.  seen: what its SELECT returned; room: the
\* room id it holds or returned; created: it had the homeserver create a
\* room; after: the get_or_create_dm calls that had returned a room when this
\* call arrived
Call(op, u, f, pc, status) ==
    [op |-> op, user_id |-> u, friend_id |-> f, pc |-> pc, status |-> status,
     seen |-> "-", room |-> NullRoom, created |-> FALSE, after |-> {}]

\* main: state.init_database().await, failure is logged and start-up goes on
init_database(ok) ==
    /\ ~serving
    /\ db_pool' = ok
    /\ serving' = TRUE
    /\ UNCHANGED <<friends, calls, rooms>>
    /\ UNCHANGED presenceVars

\* add_friend up to and including its SELECT: require_db!, the self check,
\* the lookup of an existing row, and the branch taken on its status
AddFriendEntry(conn, u, f, ok, seen) ==
    IF ~conn THEN [pc |-> "done", status |-> SERVICE_UNAVAILABLE]
    ELSE IF u = f THEN [pc |-> "done", status |-> BAD_REQUEST]
    ELSE IF ~ok THEN [pc |-> "done", status |-> INTERNAL_SERVER_ERROR]
    ELSE IF seen = "accepted" THEN [pc |-> "done", status |-> OK]
    ELSE IF seen = "pending" THEN [pc |-> "update", status |-> 0]
    ELSE [pc |-> "insert", status |-> 0]

add_friend(req, ok) ==
    /\ serving
    /\ Len(calls) < MaxFriendCalls
    /\ \E seen \in SelectStatus(friends, req.user_id, req.friend_id) :
          LET out == AddFriendEntry(db_pool, req.user_id, req.friend_id, ok, seen)
          IN calls' = Append(calls,
                 [Call("add_friend", req.user_id, req.friend_id, out.pc, out.status)
                     EXCEPT !.seen = IF db_pool /\ ok /\ req.user_id /= req.friend_id
                                     THEN seen ELSE "-"])
    /\ UNCHANGED <<db_pool, serving, friends, rooms>>
    /\ UNCHANGED presenceVars

\* add_friend, the auto-accept UPDATE and the return
AddFriendUpdate(c, ok) ==
    /\ c \in DOMAIN calls
    /\ calls[c].op = "add_friend"
    /\ calls[c].pc = "update"
    /\ friends' = IF ok THEN AutoAccept(friends, calls[c].user_id, calls[c].friend_id)
                  ELSE friends
    /\ calls' = [calls EXCEPT ![c].pc = "done",
                              ![c].status = IF ok THEN OK ELSE INTERNAL_SERVER_ERROR]
    /\ UNCHANGED <<db_pool, serving, rooms>>
    /\ UNCHANGED presenceVars

\* add_friend, the INSERT and the return
AddFriendInsert(c, ok) ==
    /\ c \in DOMAIN calls
    /\ calls[c].op = "add_friend"
    /\ calls[c].pc = "insert"
    /\ friends' = IF ok THEN InsertPending(friends, calls[c].user_id, calls[c].friend_id)
                  ELSE friends
    /\ calls' = [calls EXCEPT ![c].pc = "done",
                              ![c].status = IF ok THEN OK ELSE INTERNAL_SERVER_ERROR]
    /\ UNCHANGED <<db_pool, serving, rooms>>
    /\ UNCHANGED presenceVars

\* accept_friend: `if result.rows_affected() == 0 { return Err(NOT_FOUND) }`
AcceptStatus(n) == IF n = 0 THEN NOT_FOUND ELSE OK

\* what a handler made of one statement does: conn is whether db_pool is
\* Some, ok whether the statement ran, t2 the table it would leave
OneStatement(conn, ok, t, t2) ==
    IF ~conn THEN [table |-> t, status |-> SERVICE_UNAVAILABLE]
    ELSE IF ~ok THEN [table |-> t, status |-> INTERNAL_SERVER_ERROR]
    ELSE [table |-> t2, status |-> OK]

accept_friend(req, ok) ==
    /\ serving
    /\ Len(calls) < MaxFriendCalls
    /\ LET t2  == AcceptPending(friends, req.user_id, req.friend_id)
           out == OneStatement(db_pool, ok, friends, t2)
       IN /\ friends' = out.table
          /\ calls' = Append(calls,
                 Call("accept_friend", req.user_id, req.friend_id, "done",
                      IF out.status = OK
                      THEN AcceptStatus(RowsAffected(friends, t2))
                      ELSE out.status))
    /\ UNCHANGED <<db_pool, serving, rooms>>
    /\ UNCHANGED presenceVars

reject_friend(req, ok) ==
    /\ serving
    /\ Len(calls) < MaxFriendCalls
    /\ LET out == OneStatement(db_pool, ok, friends,
                      DeletePending(friends, req.user_id, req.friend_id))
       IN /\ friends' = out.table
          /\ calls' = Append(calls,
                 Call("reject_friend", req.user_id, req.friend_id, "done", out.status))
    /\ UNCHANGED <<db_pool, serving, rooms>>
    /\ UNCHANGED presenceVars

remove_friend(req, ok) ==
    /\ serving
    /\ Len(calls) < MaxFriendCalls
    /\ LET out == OneStatement(db_pool, ok, friends,
                      DeleteBoth(friends, req.user_id, req.friend_id))
       IN /\ friends' = out.table
          /\ calls' = Append(calls,
                 Call("remove_friend", req.user_id, req.friend_id, "done", out.status))
    /\ UNCHANGED <<db_pool, serving, rooms>>
    /\ UNCHANGED presenceVars

\* the get_or_create_dm calls that have returned a room
Returned ==
    { c \in DOMAIN calls : /\ calls[c].op = "get_or_create_dm"
                           /\ calls[c].pc = "done"
                           /\ calls[c].status = OK }

\* get_or_create_dm up to and including its SELECT: a cached room id is
\* returned (after a join whose failure is only logged), otherwise the
\* handler goes on to create a room, row or no row
get_or_create_dm(req, ok) ==
    /\ serving
    /\ Len(calls) < MaxFriendCalls
    /\ \E got \in SelectRoom(friends, req.user_id, req.friend_id) :
          LET c0 == [Call("get_or_create_dm", req.user_id, req.friend_id, "-", 0)
                        EXCEPT !.after = Returned]
          IN calls' = Append(calls,
                 IF ~db_pool
                 THEN [c0 EXCEPT !.pc = "done", !.status = SERVICE_UNAVAILABLE]
                 ELSE IF ~ok
                 THEN [c0 EXCEPT !.pc = "done", !.status = INTERNAL_SERVER_ERROR]
                 ELSE IF got.room /= NullRoom
                 THEN [c0 EXCEPT !.pc = "done", !.status = OK, !.room = got.room,
                                 !.seen = "cached"]
                 ELSE [c0 EXCEPT !.pc = "create",
                                 !.seen = IF got.row THEN "null" ELSE "none"])
    /\ UNCHANGED <<db_pool, serving, friends, rooms>>
    /\ UNCHANGED presenceVars

\* matrix.create_dm_room: the homeserver creates a room with a fresh id, or
\* the call fails and the handler returns 400
DmCreate(c, ok) ==
    /\ c \in DOMAIN calls
    /\ calls[c].op = "get_or_create_dm"
    /\ calls[c].pc = "create"
    /\ IF ok
       THEN /\ rooms' = rooms + 1
            /\ calls' = [calls EXCEPT ![c].pc = "cache", ![c].room = rooms + 1,
                                      ![c].created = TRUE]
       ELSE /\ rooms' = rooms
            /\ calls' = [calls EXCEPT ![c].pc = "done", ![c].status = BAD_REQUEST]
    /\ UNCHANGED <<db_pool, serving, friends>>
    /\ UNCHANGED presenceVars

\* the UPDATE that caches the room id in the row, and the return
DmCache(c, ok) ==
    /\ c \in DOMAIN calls
    /\ calls[c].op = "get_or_create_dm"
    /\ calls[c].pc = "cache"
    /\ friends' = IF ok
                  THEN CacheRoom(friends, calls[c].user_id, calls[c].friend_id,
                                 calls[c].room)
                  ELSE friends
    /\ calls' = [calls EXCEPT ![c].pc = "done",
                              ![c].status = IF ok THEN OK ELSE INTERNAL_SERVER_ERROR]
    /\ UNCHANGED <<db_pool, serving, rooms>>
    /\ UNCHANGED presenceVars

\* the requests of the friends handlers
FriendReqs == { [user_id |-> u, friend_id |-> f] : u \in FUsers, f \in FUsers }

OtherReqs == { r \in FriendReqs : r.user_id /= r.friend_id }

-----------------------------------------------------------------------------
(* the clock *)

Tick ==
    /\ now + TickSecs <= MaxTime
    /\ now' = now + TickSecs
    /\ store' = Expire(store, now + TickSecs)
    /\ sess' = IF store' = store THEN sess ELSE Disturb(sess)
    /\ UNCHANGED friendVars
    /\ UNCHANGED <<redis, busLog, reqs, getResp, lastSet>>

-----------------------------------------------------------------------------

\* sub: number of send calls made before the task started; clean: redis is
\* Some and, while the task was connecting, every redis call of the task
\* succeeded and the store did not change; dropped: events skipped by lag
\* subPos: the receiver's position when it was created; skipped: the bus
\* positions lag made the receiver pass over; inbound: ping and other frames
\* read; why: what ended the task; omitted: the keys the store held that a
\* failed scan or a failed lookup of the task left out of its snapshot
IdleSession ==
    [pc |-> "idle", rx |-> NoRx, sub |-> 0, keys |-> {}, clean |-> FALSE,
     dropped |-> 0, frames |-> << >>,
     subPos |-> 0, skipped |-> {}, inbound |-> 0, why |-> "-",
     omitted |-> {}]

Init ==
    /\ redis \in BOOLEAN
    /\ store = [k \in Keys |-> NoKey]
    /\ now = 0
    /\ busLog = << >>
    /\ reqs = << >>
    /\ getResp = NoResp
    /\ lastSet = [u \in Users |-> [presence |-> "offline", at |-> 0]]
    /\ sess = [s \in AllSessions |-> IdleSession]
    /\ db_pool = FALSE
    /\ serving = FALSE
    /\ friends = EmptyTable
    /\ calls = << >>
    /\ rooms = 0

Next ==
    \/ \E u \in Users, p \in Presences, ok \in BOOLEAN : SetPresenceCall(u, p, ok)
    \/ \E r \in 1 .. MaxRequests : SetPresencePublish(r)
    \/ \E u \in Users, ok \in BOOLEAN : GetPresence(u, ok)
    \/ \E s \in Sessions : Subscribe(s)
    \/ \E s \in Sessions, ok \in BOOLEAN : Scan(s, ok)
    \/ \E s \in Sessions, k \in Keys, ok \in BOOLEAN, sent \in BOOLEAN :
           SnapshotKey(s, k, ok, sent)
    \/ \E s \in Sessions, sent \in BOOLEAN : RecvEvent(s, sent)
    \/ \E s \in Sessions : RecvLagged(s)
    \/ \E s \in Sessions : ClientClose(s)
    \/ \E s \in Sessions : InboundEnd(s)
    \/ \E s \in Sessions, data \in PingData, sent \in BOOLEAN :
           ClientPing(s, data, sent)
    \/ \E s \in Sessions : ClientOther(s)
    \/ Tick
    \/ \E ok \in BOOLEAN : init_database(ok)
    \/ \E req \in FriendReqs, ok \in BOOLEAN : add_friend(req, ok)
    \/ \E c \in 1 .. MaxFriendCalls, ok \in BOOLEAN : AddFriendUpdate(c, ok)
    \/ \E c \in 1 .. MaxFriendCalls, ok \in BOOLEAN : AddFriendInsert(c, ok)
    \/ \E req \in OtherReqs, ok \in BOOLEAN : accept_friend(req, ok)
    \/ \E req \in OtherReqs, ok \in BOOLEAN : reject_friend(req, ok)
    \/ \E req \in OtherReqs, ok \in BOOLEAN : remove_friend(req, ok)
    \/ \E req \in OtherReqs, ok \in BOOLEAN : get_or_create_dm(req, ok)
    \/ \E c \in 1 .. MaxFriendCalls, ok \in BOOLEAN : DmCreate(c, ok)
    \/ \E c \in 1 .. MaxFriendCalls, ok \in BOOLEAN : DmCache(c, ok)

Spec == Init /\ [][Next]_vars

\* the write path, the sessions and the clock.  get_presence changes nothing
\* but its own response, so leaving it out changes no store, bus or session
\* state.
StreamNext ==
    \/ \E u \in Users, p \in Presences, ok \in BOOLEAN : SetPresenceCall(u, p, ok)
    \/ \E r \in 1 .. MaxRequests : SetPresencePublish(r)
    \/ \E s \in Sessions : Subscribe(s)
    \/ \E s \in Sessions, ok \in BOOLEAN : Scan(s, ok)
    \/ \E s \in Sessions, k \in Keys, ok \in BOOLEAN, sent \in BOOLEAN :
           SnapshotKey(s, k, ok, sent)
    \/ \E s \in Sessions, sent \in BOOLEAN : RecvEvent(s, sent)
    \/ \E s \in Sessions : RecvLagged(s)
    \/ \E s \in Sessions : ClientClose(s)
    \/ Tick

StreamSpec == Init /\ [][StreamNext]_vars

\* the write path, get_presence and the clock, with no session connected
StoreNext ==
    \/ \E u \in Users, p \in Presences, ok \in BOOLEAN : SetPresenceCall(u, p, ok)
    \/ \E r \in 1 .. MaxRequests : SetPresencePublish(r)
    \/ \E u \in Users, ok \in BOOLEAN : GetPresence(u, ok)
    \/ Tick

StoreSpec == Init /\ [][StoreNext]_vars

\* the inputs of the smaller specifications
BusUsers     == { <<"A">>, <<"B">> }
BusPresences == { "online", "offline" }

\* the bus with two sessions: writes whose store command succeeds, and the
\* two session tasks; no clock
BusNext ==
    \/ \E u \in BusUsers, p \in BusPresences, ok \in BOOLEAN :
           SetPresenceCall(u, p, ok)
    \/ \E r \in 1 .. MaxRequests : SetPresencePublish(r)
    \/ \E s \in BusSessions : Subscribe(s)
    \/ \E s \in BusSessions, ok \in BOOLEAN : Scan(s, ok)
    \/ \E s \in BusSessions, k \in Keys, ok \in BOOLEAN, sent \in BOOLEAN :
           SnapshotKey(s, k, ok, sent)
    \/ \E s \in BusSessions, sent \in BOOLEAN : RecvEvent(s, sent)
    \/ \E s \in BusSessions : RecvLagged(s)
    \/ \E s \in BusSessions : ClientClose(s)

BusSpec == Init /\ [][BusNext]_vars

\* the three handlers as the router calls them, each with its token, and
\* every branch of the session loop
HandlerNext ==
    \/ \E t \in Tokens, u \in BusUsers, p \in BusPresences, done \in BOOLEAN :
           set_presence([access_token |-> t, user_id |-> u, presence |-> p], done)
    \/ \E r \in 1 .. MaxRequests : SetPresencePublish(r)
    \/ \E t \in Tokens, u \in BusUsers, ok \in BOOLEAN :
           get_presence([access_token |-> t, user_id |-> u], ok)
    \/ \E t \in Tokens, s \in Sessions : ws_handler(s, [access_token |-> t])
    \/ \E s \in Sessions, ok \in BOOLEAN : Scan(s, ok)
    \/ \E s \in Sessions, k \in Keys, ok \in BOOLEAN, sent \in BOOLEAN :
           SnapshotKey(s, k, ok, sent)
    \/ \E s \in Sessions, sent \in BOOLEAN : RecvEvent(s, sent)
    \/ \E s \in Sessions : RecvLagged(s)
    \/ \E s \in Sessions : ClientClose(s)
    \/ \E s \in Sessions : InboundEnd(s)
    \/ \E s \in Sessions, data \in PingData, sent \in BOOLEAN :
           ClientPing(s, data, sent)
    \/ \E s \in Sessions : ClientOther(s)

HandlerSpec == Init /\ [][HandlerNext]_vars

\* the friends table under add, accept, reject and remove
FriendsNext ==
    \/ \E ok \in BOOLEAN : init_database(ok)
    \/ \E req \in FriendReqs, ok \in BOOLEAN : add_friend(req, ok)
    \/ \E c \in 1 .. MaxFriendCalls, ok \in BOOLEAN : AddFriendUpdate(c, ok)
    \/ \E c \in 1 .. MaxFriendCalls, ok \in BOOLEAN : AddFriendInsert(c, ok)
    \/ \E req \in OtherReqs, ok \in BOOLEAN : accept_friend(req, ok)
    \/ \E req \in OtherReqs, ok \in BOOLEAN : reject_friend(req, ok)
    \/ \E req \in OtherReqs, ok \in BOOLEAN : remove_friend(req, ok)

FriendsSpec == Init /\ [][FriendsNext]_vars

\* a friendship and the calls for its DM room
DmNext ==
    \/ \E ok \in BOOLEAN : init_database(ok)
    \/ \E req \in OtherReqs : add_friend(req, TRUE)
    \/ \E c \in 1 .. MaxFriendCalls : AddFriendUpdate(c, TRUE)
    \/ \E c \in 1 .. MaxFriendCalls : AddFriendInsert(c, TRUE)
    \/ \E req \in OtherReqs, ok \in BOOLEAN : get_or_create_dm(req, ok)
    \/ \E c \in 1 .. MaxFriendCalls, ok \in BOOLEAN : DmCreate(c, ok)
    \/ \E c \in 1 .. MaxFriendCalls, ok \in BOOLEAN : DmCache(c, ok)

DmSpec == Init /\ [][DmNext]_vars

\* one session task, scheduled fairly: the runtime keeps polling a task that
\* can make progress, and select! takes a ready branch
FairNext ==
    \/ \E u \in BusUsers, p \in BusPresences :
           SetPresenceCallUpTo(u, p, TRUE, MaxFairRequests)
    \/ \E r \in 1 .. MaxFairRequests : SetPresencePublish(r)
    \/ \E s \in Sessions : Subscribe(s)
    \/ \E s \in Sessions, ok \in BOOLEAN : Scan(s, ok)
    \/ \E s \in Sessions, k \in Keys, ok \in BOOLEAN, sent \in BOOLEAN :
           SnapshotKey(s, k, ok, sent)
    \/ \E s \in Sessions, sent \in BOOLEAN : RecvEvent(s, sent)
    \/ \E s \in Sessions : RecvLagged(s)
    \/ \E s \in Sessions : ClientClose(s)

SessionStep(s) ==
    \/ \E ok \in BOOLEAN : Scan(s, ok)
    \/ \E k \in Keys, ok \in BOOLEAN, sent \in BOOLEAN : SnapshotKey(s, k, ok, sent)
    \/ \E sent \in BOOLEAN : RecvEvent(s, sent)
    \/ RecvLagged(s)

FairSpec ==
    /\ Init
    /\ [][FairNext]_vars
    /\ \A s \in Sessions : WF_vars(SessionStep(s))

-----------------------------------------------------------------------------
(* Properties *)

UserA == <<"A">>
UserB == <<"B">>
UserC == <<"C">>

FramesOf(s) == { sess[s].frames[i] : i \in DOMAIN sess[s].frames }

Shows(s, u, p) ==
    \E f \in FramesOf(s) : f.user_id = u /\ f.presence = p

\* C1: a set_presence request whose presence is none of online, offline,
\* unavailable is rejected before any store mutation and any publish: the
\* step that takes the request leaves the store as it was, and the request
\* never sends an event.
C1_InvalidPresenceRejected ==
    [][\A r \in DOMAIN reqs' :
          reqs'[r].presence \notin ValidPresence =>
              /\ (r \notin DOMAIN reqs => store' = store)
              /\ reqs'[r].sends = 0]_vars

\* C2: a presence change published while a session is connected or
\* connecting (its send comes after the session task started) is seen by the
\* session at least once: once the session is in its loop and has taken every
\* event offered to it without lagging, one of its frames, snapshot or live,
\* carries the change.
C2_NoMissedEvent ==
    \A s \in Sessions : \A r \in DOMAIN reqs :
        ( /\ sess[s].pc = "loop"
          /\ sess[s].rx = Len(busLog)
          /\ sess[s].dropped = 0
          /\ reqs[r].sends = 1
          /\ reqs[r].sendNo > sess[s].sub )
        => Shows(s, reqs[r].user_id, reqs[r].presence)

\* the write's store command ran before the scan and its send came after the
\* subscribe: the session has the change both as a snapshot and as a live frame
C2_Witness ==
    \E s \in Sessions : \E r \in DOMAIN reqs :
        /\ sess[s].pc = "loop"
        /\ sess[s].rx = Len(busLog)
        /\ reqs[r].sends = 1
        /\ reqs[r].sendNo > sess[s].sub
        /\ \E f, g \in FramesOf(s) :
              /\ f.kind = "snapshot" /\ g.kind = "live"
              /\ f.user_id = reqs[r].user_id /\ g.user_id = reqs[r].user_id
              /\ g.presence = reqs[r].presence

\* C3: the event is sent only after the store command succeeded: a request
\* whose store command did not succeed reports failure and sends nothing, and
\* every event on the bus was sent by a request whose store command had
\* succeeded.
C3_PublishAfterStore ==
    /\ \A r \in DOMAIN reqs :
          /\ reqs[r].sends > 0 => reqs[r].applied
          /\ ~reqs[r].applied =>
                /\ reqs[r].status \in {INTERNAL_SERVER_ERROR, SERVICE_UNAVAILABLE}
                /\ reqs[r].pc = "done"
                /\ reqs[r].sends = 0
    /\ \A i \in DOMAIN busLog :
          \E r \in DOMAIN reqs :
              reqs[r].applied /\ reqs[r].sends = 1 /\ reqs[r].event = busLog[i]

C3_Witness ==
    \E r, q \in DOMAIN reqs :
        /\ reqs[r].status = INTERNAL_SERVER_ERROR
        /\ reqs[q].status = OK
        /\ Len(busLog) = 1
        /\ busLog[1] = [user_id |-> reqs[q].user_id, presence |-> reqs[q].presence]

\* C4: a call whose store command succeeded sends exactly one event, carrying
\* the request's user_id and presence (offline included); a call that failed
\* sends none; the bus holds one entry per send made while it had a receiver.
C4_OneEventPerWrite ==
    /\ \A r \in DOMAIN reqs :
          /\ (reqs[r].pc = "done" /\ reqs[r].applied) =>
                /\ reqs[r].sends = 1
                /\ reqs[r].event =
                       [user_id |-> reqs[r].user_id, presence |-> reqs[r].presence]
          /\ reqs[r].pc = "publish" => reqs[r].sends = 0
          /\ ~reqs[r].applied => reqs[r].sends = 0
    /\ Len(busLog) =
          Cardinality({ r \in DOMAIN reqs :
              reqs[r].sends = 1 /\ reqs[r].busAtSend /= "no receiver" })

C4_Witness ==
    \E r \in DOMAIN reqs :
        /\ reqs[r].presence = "offline"
        /\ reqs[r].status = OK
        /\ reqs[r].sends = 1
        /\ busLog /= << >>
        /\ busLog[Len(busLog)] = [user_id |-> reqs[r].user_id, presence |-> "offline"]

\* C5: with redis connected and the DEL command executed, an offline set
\* leaves the user's key absent and goes on to return 200, whether or not the
\* key existed before.
C5_OfflineIdempotent ==
    [][\A r \in DOMAIN reqs' :
          (reqs'[r].presence = "offline" /\ reqs'[r].applied) =>
              /\ r \notin DOMAIN reqs =>
                    /\ ~Present(store', PresenceKey(reqs'[r].user_id))
                    /\ reqs'[r].pc = "publish"
              /\ reqs'[r].pc = "done" => reqs'[r].status = OK]_vars

\* two offline sets in a row for one user, both answered 200, the key absent
C5_Witness ==
    /\ Len(reqs) = 2
    /\ reqs[1].user_id = reqs[2].user_id
    /\ reqs[1].presence = "offline" /\ reqs[2].presence = "offline"
    /\ reqs[1].status = OK /\ reqs[2].status = OK
    /\ ~Present(store, PresenceKey(reqs[1].user_id))

\* C6: when a user's latest applied set was online and PRESENCE_TTL_SECS have
\* passed since, the key is gone from the store and every get_presence
\* answered from then on says offline.
C6_TtlConvergence ==
    \A u \in Users :
        lastSet[u].presence = "online" =>
            /\ now >= lastSet[u].at + PRESENCE_TTL_SECS =>
                  ~Present(store, PresenceKey(u))
            /\ ( /\ getResp /= NoResp
                 /\ getResp.user_id = u
                 /\ getResp.at >= lastSet[u].at + PRESENCE_TTL_SECS )
               => getResp.presence = "offline"

C6_Witness ==
    /\ getResp /= NoResp
    /\ ~getResp.failed
    /\ lastSet[getResp.user_id].presence = "online"
    /\ getResp.at >= lastSet[getResp.user_id].at + PRESENCE_TTL_SECS
    /\ getResp.presence = "offline"

\* C7: get_presence always answers, for every user and every outcome of the
\* lookup, and the answer is offline when redis is None, when the lookup
\* failed and when the key is absent, and the stored value otherwise.
C7_GetNeverFails ==
    /\ \A u \in Users, ok \in BOOLEAN : ENABLED GetPresence(u, ok)
    /\ getResp /= NoResp =>
          getResp.presence =
              IF ~redis \/ getResp.failed \/ ~getResp.stored.some
              THEN "offline"
              ELSE getResp.stored.value

\* the key holds a value and the lookup failed: the answer is offline
C7_Witness ==
    /\ getResp /= NoResp
    /\ getResp.failed
    /\ getResp.stored.some
    /\ getResp.presence = "offline"

\* C8: with redis None the call answers 503 without issuing a store command;
\* with a failed store command it answers 500; in both cases the request
\* leaves store and bus as they were, sends no event, and issues no second
\* store command.
C8_WriteFailures ==
    [][\A r \in DOMAIN reqs' :
          LET q == reqs'[r] IN
          /\ ~redis => q.status = SERVICE_UNAVAILABLE /\ q.storeOps = 0
          /\ (redis /\ ~q.applied) =>
                q.status = INTERNAL_SERVER_ERROR /\ q.storeOps = 1
          /\ ~q.applied =>
                /\ q.sends = 0
                /\ q.pc = "done"
                /\ r \notin DOMAIN reqs => (store' = store /\ busLog' = busLog)
          /\ q.storeOps <= 1]_vars

\* a store command fails while a session is subscribed
C8_Witness ==
    \E r \in DOMAIN reqs :
        /\ reqs[r].status = INTERNAL_SERVER_ERROR
        /\ RxCount > 0
        /\ busLog = << >>

\* C9: the send never waits and never fails the write: a request that is
\* about to publish can always take that step, and a request whose store
\* command succeeded ends with 200, with no receiver as with a receiver whose
\* backlog is full.
C9_PublishNeverBlocks ==
    \A r \in DOMAIN reqs :
        /\ reqs[r].pc = "publish" => ENABLED SetPresencePublish(r)
        /\ (reqs[r].pc = "done" /\ reqs[r].applied) =>
              reqs[r].status = OK /\ reqs[r].sends = 1

\* a send made while a receiver's backlog was full returned 200
C9_Witness ==
    \E r \in DOMAIN reqs :
        reqs[r].status = OK /\ reqs[r].busAtSend = "full"

\* C10: when redis is connected, the store does not change while the session
\* connects, and the scan and every lookup succeed, the frames sent by the
\* time the session enters its loop are exactly one frame per key the store
\* holds, with the key's user and value, and none for a user without a key;
\* and in every session no snapshot frame follows a live frame.
C10_SnapshotCompleteness ==
    [][\A s \in Sessions :
          LET fr == sess'[s].frames IN
          /\ ( /\ sess[s].pc /= "loop"
               /\ sess'[s].pc = "loop"
               /\ sess'[s].clean )
             => /\ Len(fr) = Cardinality(StoreKeys(store))
                /\ \A u \in Users :
                      IF Present(store, PresenceKey(u))
                      THEN \E i \in DOMAIN fr :
                              /\ fr[i].user_id = u
                              /\ fr[i].presence = store[PresenceKey(u)].value
                              /\ fr[i].kind = "snapshot"
                      ELSE \A i \in DOMAIN fr : fr[i].user_id /= u
          /\ \A i, j \in DOMAIN fr :
                (i < j /\ fr[j].kind = "snapshot") => fr[i].kind = "snapshot"]_vars

\* A and B online, C absent: the session has sent exactly the two frames
C10_Witness ==
    \E s \in Sessions :
        /\ sess[s].pc = "loop"
        /\ sess[s].clean
        /\ Len(sess[s].frames) = 2
        /\ { [user_id |-> f.user_id, presence |-> f.presence] : f \in FramesOf(s) }
              = { PresenceEvent(UserA, "online"), PresenceEvent(UserB, "online") }
        /\ ~Present(store, PresenceKey(UserC))

\* the live frames of a session, in the order sent
LiveFrames(s) == SelectSeq(sess[s].frames, LAMBDA f : f.kind = "live")

HasLive(s, pos) == \E f \in FramesOf(s) : f.kind = "live" /\ f.pos = pos

\* C11: a session that has fallen more than the channel capacity behind is
\* not closed by the lagged notification: the step that delivers it leaves
\* the session in its loop with its subscription and sends nothing, and from
\* then on the session can still take the next event the channel holds.
C11_LagKeepsSession ==
    [][\A s \in Sessions :
          /\ sess'[s].dropped > sess[s].dropped =>
                /\ Len(busLog) - sess[s].rx > ChannelCapacity
                /\ sess'[s].pc = "loop"
                /\ sess'[s].rx /= NoRx
                /\ sess'[s].frames = sess[s].frames
          /\ ( /\ sess[s].pc = "loop"
               /\ sess[s].dropped > 0
               /\ sess[s].rx < Len(busLog) )
             => (ENABLED RecvEvent(s, TRUE) \/ ENABLED RecvLagged(s))]_vars

\* after the lag the session has forwarded an event published after the gap
C11_Witness ==
    \E s \in Sessions :
        /\ sess[s].pc = "loop"
        /\ sess[s].dropped > 0
        /\ \E f \in FramesOf(s) :
              /\ f.kind = "live"
              /\ \A q \in sess[s].skipped : f.pos > q

C14_StreamingCloses ==
    [][\A s \in Sessions :
          /\ ~ ENABLED RecvClosed(s)
          /\ (sess[s].pc = "loop" /\ sess'[s].pc /= "loop") =>
                /\ sess'[s].pc = "closed"
                /\ \/ ClientClose(s)
                   \/ InboundEnd(s)
                   \/ RecvEvent(s, FALSE)
                   \/ RecvClosed(s)]_vars

\* a session that has lagged, read a ping or another frame, and forwarded
\* an event is still in its loop
C14_Witness ==
    \E s \in Sessions :
        /\ sess[s].pc = "loop"
        /\ sess[s].dropped > 0
        /\ sess[s].inbound = MaxInbound
        /\ LiveFrames(s) /= << >>

\* C15: no presence key ever holds the value "offline": an offline write
\* deletes the key, every other write stores its own value, and expiry only
\* removes keys.
C15_OfflineNeverStored ==
    \A k \in Keys : Present(store, k) => store[k].value /= "offline"

\* a user set online and then offline has no key, while another value is
\* or was stored: the offline write was executed by redis
C15_Witness ==
    \E r, q \in DOMAIN reqs :
        /\ r < q
        /\ reqs[r].user_id = reqs[q].user_id
        /\ reqs[r].presence = "online" /\ reqs[r].applied
        /\ reqs[q].presence = "offline" /\ reqs[q].applied
        /\ ~ Present(store, PresenceKey(reqs[q].user_id))
        /\ lastSet[reqs[q].user_id].presence = "offline"

\* C16: the subscription comes first.  Every step of a session that issues
\* the scan, or reads a key and sends its snapshot frame, is taken by a
\* session that already holds its receiver; so does every state in which
\* the scan or a per-key read is still to come.
C16_SubscribeBeforeScan ==
    [][\A s \in Sessions :
          /\ ( \/ \E ok \in BOOLEAN : Scan(s, ok)
               \/ \E k \in Keys, ok \in BOOLEAN, sent \in BOOLEAN :
                     SnapshotKey(s, k, ok, sent) )
             => /\ sess[s].rx /= NoRx
                /\ sess[s].rx >= sess[s].subPos
          /\ sess'[s].pc \in {"scan", "snapshot"} => sess'[s].rx /= NoRx]_vars

\* a session between two per-key reads, one snapshot frame sent, whose
\* receiver already holds an event published since it subscribed
C16_Witness ==
    \E s \in Sessions :
        /\ sess[s].pc = "snapshot"
        /\ \E f \in FramesOf(s) : f.kind = "snapshot"
        /\ sess[s].rx /= NoRx
        /\ Len(busLog) > sess[s].rx

\* a session that never lagged has forwarded, without a gap, the events
\* from its subscribe position on
Unaffected(t) ==
    sess[t].dropped = 0 =>
        \A i \in DOMAIN LiveFrames(t) : LiveFrames(t)[i].pos = sess[t].subPos + i

\* C17: a lag is one receiver's own.  The step that delivers a lagged
\* notification to a session is taken only when that session is more than
\* the capacity behind; the count it reports is the number of positions the
\* receiver passes over, those are the oldest it had not read and none of
\* them is still held; the channel and every other session are left as they
\* were, and a session that never lagged goes on without a gap.
C17_LagIsPerSubscriber ==
    [][\A s \in BusSessions :
          /\ sess'[s].dropped /= sess[s].dropped =>
                /\ Len(busLog) - sess[s].rx > ChannelCapacity
                /\ sess'[s].dropped - sess[s].dropped = sess'[s].rx - sess[s].rx
                /\ sess'[s].skipped \ sess[s].skipped
                       = (sess[s].rx + 1) .. (Len(busLog) - ChannelCapacity)
                /\ Cardinality(sess'[s].skipped \ sess[s].skipped)
                       = sess'[s].dropped - sess[s].dropped
                /\ busLog' = busLog
                /\ \A t \in BusSessions \ {s} : sess'[t] = sess[t]
          /\ Unaffected(s)']_vars

\* one session has lagged and lost the first event; the other, subscribed
\* at the same position, has forwarded both events
C17_Witness ==
    \E s, t \in BusSessions :
        /\ s /= t
        /\ sess[s].skipped = {1} /\ sess[s].dropped = 1
        /\ sess[s].subPos = 0 /\ sess[t].subPos = 0
        /\ sess[t].dropped = 0
        /\ Len(LiveFrames(t)) = 2

\* the last bus position a lag made the session pass over
LastSkipped(s) == CHOOSE g \in sess[s].skipped : \A q \in sess[s].skipped : q <= g

\* C18: after a lagged notification the session gets everything published
\* after the gap.  Its live frames past the last skipped position start with
\* the very next position and go on one by one, up to the position its
\* receiver has reached; and whenever a later event is held and the session
\* is not behind by more than the capacity again, forwarding it is possible.
C18_AfterGapComplete ==
    \A s \in Sessions :
        sess[s].skipped /= {} =>
            LET g    == LastSkipped(s)
                live == LiveFrames(s)
                past == SelectSeq(live, LAMBDA f : f.pos > g)
            IN /\ \A i \in DOMAIN past : past[i].pos = g + i
               /\ \A i \in DOMAIN past :
                     busLog[past[i].pos] =
                         [user_id |-> past[i].user_id, presence |-> past[i].presence]
               /\ sess[s].rx /= NoRx =>
                     /\ sess[s].rx = g + Len(past)
                     /\ ( /\ sess[s].pc = "loop"
                          /\ sess[s].rx < Len(busLog)
                          /\ Len(busLog) - sess[s].rx <= ChannelCapacity )
                        => ENABLED RecvEvent(s, TRUE)

\* the session lost the first event to a lag and has then forwarded the
\* second and the third, which differ
C18_Witness ==
    \E s \in Sessions :
        /\ sess[s].skipped = {1}
        /\ Len(busLog) = 3
        /\ busLog[2] /= busLog[3]
        /\ LET live == LiveFrames(s)
           IN /\ Len(live) = 2
              /\ live[1].pos = 2
              /\ live[2].pos = 3

\* the request whose send put an event at a bus position
Published(pos) == { r \in DOMAIN reqs : reqs[r].busPos = pos }

\* C19: no replay, and nothing withheld.  Every live frame of a session
\* carries an event whose send call was made after the session subscribed;
\* an event sent before is never forwarded as a live frame.  While the
\* session holds its receiver, every event sent since it subscribed is in
\* the channel behind its subscribe position, and is either forwarded,
\* counted as dropped by a lag, or still ahead of the receiver.
C19_NoReplay ==
    \A s \in BusSessions :
        /\ \A f \in FramesOf(s) :
              f.kind = "live" =>
                  /\ f.pos > sess[s].subPos
                  /\ Published(f.pos) /= {}
                  /\ \A r \in Published(f.pos) : reqs[r].sendNo > sess[s].sub
        /\ \A r \in DOMAIN reqs :
              (reqs[r].sends > 0 /\ reqs[r].sendNo <= sess[s].sub /\ sess[s].pc /= "idle")
              => ~ HasLive(s, reqs[r].busPos)
        /\ sess[s].rx /= NoRx =>
              /\ Len(LiveFrames(s)) + sess[s].dropped = sess[s].rx - sess[s].subPos
              /\ \A r \in DOMAIN reqs :
                    (reqs[r].sends > 0 /\ reqs[r].sendNo > sess[s].sub) =>
                        /\ reqs[r].busPos > sess[s].subPos
                        /\ \/ HasLive(s, reqs[r].busPos)
                           \/ reqs[r].busPos \in sess[s].skipped
                           \/ reqs[r].busPos > sess[s].rx

\* a session that subscribed when one event had already been published and
\* was still held has forwarded the second event and not the first
C19_Witness ==
    \E s \in BusSessions :
        /\ sess[s].subPos = 1
        /\ sess[s].sub = 1
        /\ Len(busLog) = 2
        /\ HasLive(s, 2)
        /\ ~ HasLive(s, 1)
        /\ sess[s].pc = "loop"

\* C20: under fair scheduling of the session task, every event that enters
\* the channel while a session holds its receiver is eventually sent to the
\* session's client, unless a lag made the receiver pass over it or the
\* session ended (client gone or send failed).
C20_EventuallyDelivered ==
    \A s \in Sessions : \A pos \in 1 .. MaxFairRequests :
        ( /\ Len(busLog) >= pos
          /\ sess[s].rx /= NoRx
          /\ sess[s].subPos < pos )
        ~> ( \/ HasLive(s, pos)
             \/ pos \in sess[s].skipped
             \/ sess[s].pc = "closed" )

\* an event published while the session was subscribed has been forwarded
\* by a session that is still connected, with a later event held for it
C20_Witness ==
    \E s \in Sessions :
        /\ sess[s].pc = "loop"
        /\ sess[s].subPos = 0
        /\ HasLive(s, 1)
        /\ HasLive(s, 2)
        /\ Len(busLog) = 3

\* C21: a non-offline write that redis executed at time t leaves the key
\* holding the written value with an expiry of t + PRESENCE_TTL_SECS, whatever
\* the key held before; so from the user's latest such write until the full
\* TTL has passed the key is present with that value.
C21_RefreshResetsTtl ==
    \A u \in Users :
        ( /\ lastSet[u].presence /= "offline"
          /\ now < lastSet[u].at + PRESENCE_TTL_SECS )
        => /\ Present(store, PresenceKey(u))
           /\ store[PresenceKey(u)].value = lastSet[u].presence
           /\ store[PresenceKey(u)].expiry = lastSet[u].at + PRESENCE_TTL_SECS

\* a key written twice, the second time one clock step after the start, is
\* still present with the second value when the TTL counted from the start
\* has run out
C21_Witness ==
    \E r, q \in DOMAIN reqs :
        /\ r < q
        /\ reqs[r].user_id = reqs[q].user_id
        /\ reqs[r].applied /\ reqs[q].applied
        /\ reqs[r].presence /= "offline" /\ reqs[q].presence /= "offline"
        /\ reqs[r].presence /= reqs[q].presence
        /\ lastSet[reqs[q].user_id].at = TickSecs
        /\ now = PRESENCE_TTL_SECS
        /\ Present(store, PresenceKey(reqs[q].user_id))
        /\ store[PresenceKey(reqs[q].user_id)].value = reqs[q].presence

\* C22: a close frame from the client, or the end of the inbound stream,
\* takes a session in its loop to closed, with its receiver released and no
\* frame sent in that step; and a session closed that way sends nothing and
\* takes no event from then on.
C22_CloseEndsStream ==
    [][\A s \in Sessions :
          /\ (ClientClose(s) \/ InboundEnd(s)) =>
                /\ sess[s].pc = "loop"
                /\ sess'[s].pc = "closed"
                /\ sess'[s].rx = NoRx
                /\ sess'[s].frames = sess[s].frames
          /\ sess[s].why \in {"close frame", "stream end"} =>
                /\ sess'[s].frames = sess[s].frames
                /\ sess'[s].pc = "closed"
                /\ \A sent \in BOOLEAN : ~ ENABLED RecvEvent(s, sent)]_vars

\* the inbound stream of a session ended while an event was waiting in the
\* channel for it: the event was never forwarded
C22_Witness ==
    \E s \in Sessions :
        /\ sess[s].pc = "closed"
        /\ sess[s].why = "stream end"
        /\ Len(busLog) > sess[s].subPos + Len(LiveFrames(s)) + sess[s].dropped

\* C23: a ping read in the loop is answered with one pong carrying the
\* ping's payload (none when the socket refuses the write, the result being
\* discarded) and the session stays in its loop with its receiver; any other
\* inbound frame that is not a close sends nothing and leaves the session's
\* position, its receiver, its frames, the store and the channel as they were.
C23_PingPong ==
    [][\A s \in Sessions :
          /\ \A d \in PingData, sent \in BOOLEAN :
                ClientPing(s, d, sent) =>
                    /\ sess'[s].pc = "loop"
                    /\ sess'[s].rx = sess[s].rx
                    /\ store' = store /\ busLog' = busLog /\ reqs' = reqs
                    /\ IF sent
                       THEN /\ Len(sess'[s].frames) = Len(sess[s].frames) + 1
                            /\ SubSeq(sess'[s].frames, 1, Len(sess[s].frames))
                                   = sess[s].frames
                            /\ LET f == sess'[s].frames[Len(sess'[s].frames)]
                               IN f.kind = "pong" /\ f.data = d
                       ELSE sess'[s].frames = sess[s].frames
          /\ ClientOther(s) =>
                /\ sess'[s].pc = "loop"
                /\ sess'[s].rx = sess[s].rx
                /\ sess'[s].frames = sess[s].frames
                /\ sess'[s].keys = sess[s].keys
                /\ sess'[s].dropped = sess[s].dropped
                /\ store' = store /\ busLog' = busLog /\ reqs' = reqs]_vars

\* a session that has forwarded an event, then answered a ping with payload
\* "p", is in its loop and still subscribed
C23_Witness ==
    \E s \in Sessions :
        /\ sess[s].pc = "loop"
        /\ sess[s].rx /= NoRx
        /\ Len(sess[s].frames) = 2
        /\ sess[s].frames[1].kind = "live"
        /\ sess[s].frames[2].kind = "pong"
        /\ sess[s].frames[2].data = <<"p">>

\* C24: a failed send of a presence frame, of a snapshot frame or of a live
\* event, closes that session and does nothing else: no frame is added, and
\* the store, the channel, the requests with their results, the answers and
\* every other session are as they were.
C24_SendFailureIsLocal ==
    [][\A s \in BusSessions :
          ( \/ RecvEvent(s, FALSE)
            \/ \E k \in Keys :
                  /\ StoreGet(store, k).some
                  /\ SnapshotKey(s, k, TRUE, FALSE) )
          => /\ sess'[s].pc = "closed"
             /\ sess'[s].rx = NoRx
             /\ sess'[s].frames = sess[s].frames
             /\ store' = store
             /\ busLog' = busLog
             /\ reqs' = reqs
             /\ getResp' = getResp
             /\ \A t \in BusSessions \ {s} : sess'[t] = sess[t]]_vars

\* the send of the first event failed for one session, which is closed;
\* the other session has forwarded that event and the request that published
\* it returned OK
C24_Witness ==
    \E s, t \in BusSessions :
        /\ s /= t
        /\ sess[s].pc = "closed"
        /\ sess[s].why = "send failed"
        /\ sess[s].subPos = 0
        /\ LiveFrames(s) = << >>
        /\ sess[t].pc = "loop"
        /\ HasLive(t, 1)
        /\ \E r \in DOMAIN reqs : reqs[r].busPos = 1 /\ reqs[r].status = OK

\* sessions that have subscribed and not closed
OpenSessions == { s \in AllSessions : sess[s].pc \in {"scan", "snapshot", "loop"} }

\* C25: closed is final and gives the receiver back.  A closed session is
\* never changed again: no frame, no other position; and in every state the
\* number of live receivers of the channel is the number of sessions that
\* have subscribed and not closed, and exactly those hold one.
C25_ClosedIsTerminal ==
    [][/\ \A s \in BusSessions :
             sess[s].pc = "closed" => sess'[s] = sess[s]
       /\ RxCount = Cardinality(OpenSessions)
       /\ RxCount' = Cardinality(OpenSessions')
       /\ \A s \in BusSessions :
             (sess'[s].rx /= NoRx) <=> (s \in OpenSessions')]_vars

\* one session closed after forwarding the first event; the second event
\* was published to the one receiver left and forwarded by the other session
\* only
C25_Witness ==
    \E s, t \in BusSessions :
        /\ s /= t
        /\ sess[s].pc = "closed"
        /\ sess[t].pc = "loop"
        /\ RxCount = 1
        /\ HasLive(s, 1) /\ ~ HasLive(s, 2)
        /\ HasLive(t, 1) /\ HasLive(t, 2)

\* the snapshot frames of a session
SnapshotFrames(s) == SelectSeq(sess[s].frames, LAMBDA f : f.kind = "snapshot")

\* C26: no store failure closes a connecting session.  Without a store
\* connection the task goes from subscribe straight to its loop; a failed
\* scan takes it to its loop with no frame sent; a failed lookup drops that
\* one key from the keys still to read, sends nothing, and the other keys
\* keep their turn, each sending its frame when its own lookup succeeds.  The
\* only way from connecting to closed is a failed send of a snapshot frame.
\* Once in the loop, a session that had such failures can forward the next
\* event the channel holds for it.
C26_StoreFailuresSwallowed ==
    [][\A s \in Sessions :
          /\ (Subscribe(s) /\ ~redis) =>
                sess'[s].pc = "loop" /\ sess'[s].frames = << >>
          /\ Scan(s, FALSE) =>
                /\ sess'[s].pc = "loop"
                /\ sess'[s].rx = sess[s].rx
                /\ sess'[s].frames = << >>
          /\ \A k \in Keys :
                /\ (\E sent \in BOOLEAN : SnapshotKey(s, k, FALSE, sent)) =>
                      /\ sess'[s].pc \in {"snapshot", "loop"}
                      /\ sess'[s].rx = sess[s].rx
                      /\ sess'[s].frames = sess[s].frames
                      /\ sess'[s].keys = sess[s].keys \ {k}
                /\ (SnapshotKey(s, k, TRUE, TRUE) /\ Present(store, k)) =>
                      /\ Len(sess'[s].frames) = Len(sess[s].frames) + 1
                      /\ LET f == sess'[s].frames[Len(sess'[s].frames)]
                         IN /\ f.kind = "snapshot"
                            /\ PresenceKey(f.user_id) = k
                            /\ f.presence = store[k].value
          /\ (sess[s].pc \in {"idle", "scan", "snapshot"} /\ sess'[s].pc = "closed")
             => \E k \in Keys : /\ Present(store, k)
                                /\ SnapshotKey(s, k, TRUE, FALSE)
          /\ ( /\ sess[s].pc = "loop"
               /\ (sess[s].omitted /= {} \/ ~redis)
               /\ sess[s].rx < Len(busLog)
               /\ Len(busLog) - sess[s].rx <= ChannelCapacity )
             => ENABLED RecvEvent(s, TRUE)]_vars

\* the lookup of A's key failed: the snapshot holds B's frame only, the
\* session is in its loop and has forwarded a live event
C26_Witness ==
    \E s \in Sessions :
        /\ sess[s].pc = "loop"
        /\ sess[s].omitted = {PresenceKey(UserA)}
        /\ Len(SnapshotFrames(s)) = 1
        /\ SnapshotFrames(s)[1].user_id = UserB
        /\ LiveFrames(s) /= << >>

\* the frames of a session that carry a user's presence, in the order sent
FramesFor(s, u) ==
    SelectSeq(sess[s].frames,
              LAMBDA f : f.kind \in {"snapshot", "live"} /\ f.user_id = u)

\* the writes for u were published in the order their store commands ran
\* (as they are when the calls do not overlap), and all have returned
WritesSettled(u) ==
    /\ \A r \in DOMAIN reqs : reqs[r].pc = "done"
    /\ \A r, q \in DOMAIN reqs :
          ( /\ r < q
            /\ reqs[r].user_id = u /\ reqs[q].user_id = u
            /\ reqs[r].sends > 0 /\ reqs[q].sends > 0 )
          => reqs[r].sendNo < reqs[q].sendNo

\* the session is in its loop, never lagged, and has taken every event
CaughtUp(s) ==
    /\ sess[s].pc = "loop"
    /\ sess[s].dropped = 0
    /\ sess[s].rx = Len(busLog)

\* the session's latest frame for u says what the store holds for u
Agrees(s, u) ==
    LET fs == FramesFor(s, u) IN
    /\ ~ Present(store, PresenceKey(u))
          <=> (fs = << >> \/ fs[Len(fs)].presence = "offline")
    /\ Present(store, PresenceKey(u)) =>
          /\ fs /= << >>
          /\ fs[Len(fs)].presence = store[PresenceKey(u)].value

\* C27 as stated: with writes for a user that do not overlap, no expiry (the
\* clock does not move here) and a session that never lagged, once every
\* write has returned and the session has taken every event, its latest
\* frame for the user agrees with the store.
C27_LatestFrameAgrees ==
    \A s \in BusSessions, u \in BusUsers :
        (WritesSettled(u) /\ CaughtUp(s)) => Agrees(s, u)

\* C27, amended: the same, for a user whose key no failed scan or failed
\* lookup of the session left out of the snapshot.
C27_LatestFrameAgreesIfRead ==
    \A s \in BusSessions, u \in BusUsers :
        ( /\ WritesSettled(u)
          /\ CaughtUp(s)
          /\ PresenceKey(u) \notin sess[s].omitted )
        => Agrees(s, u)

\* A was set online and then offline around the session's connect: the
\* snapshot says online, the live event offline, and the key is gone
C27_Witness ==
    \E s \in BusSessions :
        /\ WritesSettled(UserA)
        /\ CaughtUp(s)
        /\ sess[s].omitted = {}
        /\ Len(FramesFor(s, UserA)) = 2
        /\ FramesFor(s, UserA)[1].kind = "snapshot"
        /\ FramesFor(s, UserA)[1].presence = "online"
        /\ FramesFor(s, UserA)[2].kind = "live"
        /\ FramesFor(s, UserA)[2].presence = "offline"
        /\ ~ Present(store, PresenceKey(UserA))

-----------------------------------------------------------------------------
(* The friends table *)

\* the row of requester r and addressee a exists with this status
HasStatus(t, r, a, st) == t[<<r, a>>] /= NoRow /\ t[<<r, a>>].status = st

\* C28: in every state the friends table holds at most one row per unordered
\* pair of users, and no row whose requester and addressee are the same user.
C28_OneRowPerPair ==
    \A u, f \in FUsers :
        /\ u = f => friends[<<u, f>>] = NoRow
        /\ u /= f => ~ (friends[<<u, f>>] /= NoRow /\ friends[<<f, u>>] /= NoRow)

\* C29: a row goes from pending to accepted only in a step of a call whose
\* user_id is the row's addressee, an accept_friend or the UPDATE of an
\* add_friend; every step of an add_friend of the requester leaves a pending
\* row pending; an accept_friend that finds no pending row from friend_id to
\* user_id returns 404 and leaves the table as it was; and no step takes an
\* accepted row to pending.
C29_AcceptOnlyByAddressee ==
    [][\A r, a \in FUsers :
          /\ (HasStatus(friends, r, a, "pending") /\ HasStatus(friends', r, a, "accepted"))
             => \/ \E ok \in BOOLEAN :
                      accept_friend([user_id |-> a, friend_id |-> r], ok)
                \/ \E c \in DOMAIN calls :
                      /\ calls[c].user_id = a
                      /\ calls[c].friend_id = r
                      /\ AddFriendUpdate(c, TRUE)
          /\ ( /\ HasStatus(friends, r, a, "pending")
               /\ \/ \E ok \in BOOLEAN :
                        add_friend([user_id |-> r, friend_id |-> a], ok)
                  \/ \E c \in DOMAIN calls, ok \in BOOLEAN :
                        /\ calls[c].user_id = r
                        /\ calls[c].friend_id = a
                        /\ (AddFriendUpdate(c, ok) \/ AddFriendInsert(c, ok)) )
             => HasStatus(friends', r, a, "pending")
          /\ ( /\ ~ HasStatus(friends, r, a, "pending")
               /\ db_pool
               /\ accept_friend([user_id |-> a, friend_id |-> r], TRUE) )
             => /\ calls'[Len(calls')].status = NOT_FOUND
                /\ friends' = friends
          /\ ~ (HasStatus(friends, r, a, "accepted") /\ HasStatus(friends', r, a, "pending"))]_vars

\* alice asked bob, asked again while her request was pending and got 200
\* from the auto-accept branch, which left her row pending; bob's accept then
\* found it pending and accepted it; a second accept found nothing: 404
C29_Witness ==
    /\ Len(calls) = 4
    /\ \A c \in {1, 2} :
          /\ calls[c].op = "add_friend"
          /\ calls[c].user_id = "alice" /\ calls[c].friend_id = "bob"
          /\ calls[c].pc = "done" /\ calls[c].status = OK
    /\ calls[1].seen = "none"
    /\ calls[2].seen = "pending"
    /\ \A c \in {3, 4} :
          /\ calls[c].op = "accept_friend"
          /\ calls[c].user_id = "bob" /\ calls[c].friend_id = "alice"
    /\ calls[3].status = OK
    /\ calls[4].status = NOT_FOUND
    /\ HasStatus(friends, "alice", "bob", "accepted")
    /\ friends[<<"bob", "alice">>] = NoRow

\* two calls are for the same unordered pair of users
SamePair(c, d) ==
    {calls[c].user_id, calls[c].friend_id} = {calls[d].user_id, calls[d].friend_id}

\* C30: when a get_or_create_dm call for a pair with a friendship row has
\* returned a room id, every call for that pair, in either direction, that
\* arrives after that return and returns a room id returns the same one and
\* has had no room created.
C30_OneRoomPerPair ==
    \A c, d \in Returned :
        ( /\ c \in calls[d].after
          /\ SamePair(c, d)
          /\ calls[c].seen /= "none" )
        => /\ calls[d].room = calls[c].room
           /\ ~ calls[d].created

====
